---------------------------- MODULE Spec2Model ----------------------------
(***************************************************************************)
(* A model of pulse (src/app/main.py): a blood-pressure log kept in a      *)
(* newline-delimited JSON file, written by POST /add (append) and POST     *)
(* /edit (backup, truncate, rewrite) and read by read_all.                 *)
(*                                                                         *)
(* Time.  An ISO timestamp string is the record [clk, sfx]: clk is the     *)
(* wall-clock reading it spells, counted in hours (day = clk \div 24,      *)
(* hour = clk % 24), and sfx is its offset suffix as text.  One hour is    *)
(* also the resolution of the model's clock, so two requests served in the *)
(* same tick get the same timestamp and the same backup file name, as two  *)
(* requests served in the same second do in the program.                   *)
(*                                                                         *)
(* Files.  A text file opened by Python is written through a buffer; a     *)
(* record line is far smaller than the buffer, so f.write() only fills     *)
(* the buffer and the bytes reach the file when the "with" block closes    *)
(* the file, in one write() system call.  open(.., "a") appends that call  *)
(* atomically at the end of the file; open(.., "w") truncates the file     *)
(* when it is opened.                                                      *)
(***************************************************************************)
EXTENDS Integers, Sequences, FiniteSets, Bags, TLC

VARIABLES
    file,       \* bp.ndjson: the sequence of its lines
    lock,       \* the set of handlers holding flock(LOCK_EX) on bp.ndjson (0 or 1)
    backups,    \* the backup files: backup name -> sequence of lines
    now,        \* the server's clock
    pc,         \* pc[p]: where request handler p stands
    loc,        \* loc[p]: the local variables of handler p
    started,    \* number of requests served so far
    appended,   \* history: the records whose append reached the file, in order
    editlog,    \* history: per finished rewrite, its backup name and what it overwrote
    arg,        \* the input a specification fixes at its start (function or line)
    ret         \* the result of the call, or the page GET /edit showed

vars == <<file, lock, backups, now, pc, loc, started, appended, editlog, arg, ret>>

----------------------------------------------------------------------------
(* Settings, main.py lines 27-29.                                          *)

SYS_MIN == 70
SYS_MAX == 250
DIA_MIN == 40
DIA_MAX == 150
PUL_MIN == 30
PUL_MAX == 220

\* the number of most recent records POST /edit replaces (all_entries[:-10])
EDIT_LAST == 10

----------------------------------------------------------------------------
(* Timestamps.                                                             *)

\* The offset suffixes of the model: "" (a naive timestamp), "+00:00",
\* "+03:00", "+08:00", the legacy "Z", and "?" for text that is no ISO
\* timestamp.  SfxRank is the rank of a suffix in Python's string order:
\* "" is a prefix of the others, and '+' (0x2B) sorts before 'Z' (0x5A).
SfxRank(sfx) ==
    CASE sfx = ""       -> 0
      [] sfx = "+00:00" -> 1
      [] sfx = "+03:00" -> 2
      [] sfx = "+08:00" -> 3
      [] sfx = "Z"      -> 4
      [] OTHER          -> 5

\* utcoffset of a parsed suffix, in hours
OffsetHours(sfx) ==
    CASE sfx = "+03:00" -> 3
      [] sfx = "+08:00" -> 8
      [] OTHER          -> 0

\* parse_iso: 'Z' is replaced by '+00:00', then datetime.fromisoformat.
\* ok = FALSE stands for the ValueError fromisoformat raises.
parse_iso(s) ==
    LET sfx == IF s.sfx = "Z" THEN "+00:00" ELSE s.sfx
    IN  IF sfx = "?"
        THEN [ok |-> FALSE, clk |-> 0, aware |-> FALSE, off |-> 0]
        ELSE [ok |-> TRUE, clk |-> s.clk, aware |-> sfx # "",
              off |-> OffsetHours(sfx)]

\* datetime.date() and datetime.hour: read from the timestamp's own clock
DateOf(dt) == dt.clk \div 24
HourOf(dt) == dt.clk % 24

\* the instant an aware datetime denotes (what Python compares)
Instant(dt) == dt.clk - dt.off

\* dt1 <= dt2 as Python orders datetimes in a sort: aware ones by instant,
\* naive ones by clock (mixing the two raises TypeError, see Comparable)
DtLeq(d1, d2) ==
    IF d1.aware THEN Instant(d1) <= Instant(d2) ELSE d1.clk <= d2.clk

Comparable(d1, d2) == d1.aware = d2.aware

\* s1 <= s2 as Python orders the timestamp strings
StrLeq(s1, s2) ==
    \/ s1.clk < s2.clk
    \/ s1.clk = s2.clk /\ SfxRank(s1.sfx) <= SfxRank(s2.sfx)

\* now_local_iso(tz_name): the clock read in the zone, with its offset
TzSuffix(tz) == IF tz = "Europe/Moscow" THEN "+03:00" ELSE "+08:00"

now_local_iso(tz, clock) ==
    [clk |-> clock + OffsetHours(TzSuffix(tz)), sfx |-> TzSuffix(tz)]

----------------------------------------------------------------------------
(* validate_values and compute_median_avg.                                 *)

ValidateStrictMax(s, d, p) ==
    IF ~(SYS_MIN <= s /\ s < SYS_MAX) THEN "Systolic out of range 70-250"
    ELSE IF ~(DIA_MIN <= d /\ d < DIA_MAX) THEN "Diastolic out of range 40-150"
    ELSE IF ~(PUL_MIN <= p /\ p < PUL_MAX) THEN "Pulse out of range 30-220"
    ELSE IF d > s THEN "Diastolic cannot be greater than systolic"
    ELSE "ok"

ValidateNoOrder(s, d, p) ==
    CASE ~(SYS_MIN <= s /\ s <= SYS_MAX) -> "Systolic out of range 70-250"
      [] ~(DIA_MIN <= d /\ d <= DIA_MAX) -> "Diastolic out of range 40-150"
      [] ~(PUL_MIN <= p /\ p <= PUL_MAX) -> "Pulse out of range 30-220"
      [] OTHER -> "ok"

\* the ValueError message, or "ok" when it returns
validate_values(s, d, p) ==
    IF ~(SYS_MIN <= s /\ s <= SYS_MAX) THEN "Systolic out of range 70-250"
    ELSE IF ~(DIA_MIN <= d /\ d <= DIA_MAX) THEN "Diastolic out of range 40-150"
    ELSE IF ~(PUL_MIN <= p /\ p <= PUL_MAX) THEN "Pulse out of range 30-220"
    ELSE IF d > s THEN "Diastolic cannot be greater than systolic"
    ELSE "ok"

\* stable insertion of x into the ascending sequence s
InsertInt(s, x) ==
    LET k == Cardinality({i \in DOMAIN s : s[i] <= x})
    IN  SubSeq(s, 1, k) \o <<x>> \o SubSeq(s, k + 1, Len(s))

RECURSIVE SortInts(_)
SortInts(s) ==
    IF s = <<>> THEN <<>>
    ELSE InsertInt(SortInts(SubSeq(s, 1, Len(s) - 1)), s[Len(s)])

\* Python's round() of n/2: halves go to the even neighbour
RoundHalf(n) ==
    IF n % 2 = 0 THEN n \div 2
    ELSE IF (n \div 2) % 2 = 0 THEN n \div 2 ELSE n \div 2 + 1

MedianUpperMiddle(vals) ==
    LET sorted_vals == SortInts(vals)
    IN  sorted_vals[Len(sorted_vals) \div 2 + 1]

\* compute_median_avg; vals is non-empty (the empty list raises IndexError,
\* which add's caller-side model handles before calling)
compute_median_avg(vals) ==
    LET sorted_vals == SortInts(vals)
        n == Len(sorted_vals)
    IN  IF n % 2 = 0
        THEN RoundHalf(sorted_vals[n \div 2] + sorted_vals[n \div 2 + 1])
        ELSE sorted_vals[n \div 2 + 1]

----------------------------------------------------------------------------
(* Records and the lines of the file.                                      *)
(* A record is [t, sys, dia, pulse]; its "raw" and "local_tz" strings are  *)
(* carried along by the program and read by none of its decisions.         *)
(* A line is [kind, rec]: "obj" is the JSON text of a record (json.dumps   *)
(* of a dict of strings and ints, which json.loads reads back unchanged),  *)
(* "obj_no_t" a JSON object without a "t" key, "scalar" JSON that is not   *)
(* an object, "garbage" text that is not JSON, "blank" an empty line.      *)

NoEntry == [t |-> [clk |-> 0, sfx |-> "?"], sys |-> 0, dia |-> 0, pulse |-> 0]

json_dumps(entry) == [kind |-> "obj", rec |-> entry]

\* json.loads succeeds on the line
JsonLoads(line) == line.kind \in {"obj", "obj_no_t", "scalar"}

\* record j comes before record i in the sorted list: its key is smaller,
\* or the keys are equal and j came first (Python's sort is stable)
DtBefore(s, j, i) ==
    LET dj == parse_iso(s[j].t)
        di == parse_iso(s[i].t)
    IN  IF DtLeq(di, dj) THEN DtLeq(dj, di) /\ j < i ELSE TRUE

\* list.sort(key=lambda x: parse_iso(x["t"])), on parsable, comparable keys:
\* the record at position k is the one that k - 1 records come before
SortByDt(s) ==
    [k \in DOMAIN s |->
       s[CHOOSE i \in DOMAIN s :
           Cardinality({j \in DOMAIN s : DtBefore(s, j, i)}) = k - 1]]

\* stable insertion of record e into s, ascending by the string e["t"]
InsertByStr(s, e) ==
    LET k == Cardinality({i \in DOMAIN s : StrLeq(s[i].t, e.t)})
    IN  SubSeq(s, 1, k) \o <<e>> \o SubSeq(s, k + 1, Len(s))

\* list.sort(key=lambda x: x["t"])
RECURSIVE SortByStr(_)
SortByStr(s) ==
    IF s = <<>> THEN <<>>
    ELSE InsertByStr(SortByStr(SubSeq(s, 1, Len(s) - 1)), s[Len(s)])

LoadableLineInverted(line) == line.kind = "blank" /\ JsonLoads(line)

\* the lines read_all keeps: not blank after strip(), and json.loads succeeds
LoadableLine(line) == line.kind # "blank" /\ JsonLoads(line)

RECURSIVE KeepLines(_)
KeepLines(lines) ==
    IF lines = <<>> THEN <<>>
    ELSE LET rest == KeepLines(SubSeq(lines, 1, Len(lines) - 1))
             l == lines[Len(lines)]
         IN  IF LoadableLine(l) THEN Append(rest, l) ELSE rest

\* the sort of read_all raises: x["t"] on a value that is no dict (TypeError)
\* or has no "t" (KeyError), parse_iso on unparsable text (ValueError), or
\* the comparison of a naive with an aware datetime (TypeError)
SortRaises(kept) ==
    \/ \E i \in DOMAIN kept : kept[i].kind # "obj"
    \/ \E i \in DOMAIN kept : ~parse_iso(kept[i].rec.t).ok
    \/ \E i, j \in DOMAIN kept :
          ~Comparable(parse_iso(kept[i].rec.t), parse_iso(kept[j].rec.t))

\* read_all on the lines of the file: ok = FALSE stands for the exception
\* that leaves read_all
read_all(lines) ==
    LET kept == KeepLines(lines)
        items == [i \in DOMAIN kept |-> kept[i].rec]
    IN  IF SortRaises(kept)
        THEN [ok |-> FALSE, items |-> <<>>]
        ELSE [ok |-> TRUE, items |-> SortByDt(items)]

----------------------------------------------------------------------------
(* group_measurements_by_date, on records with parsable aware timestamps.  *)

RECURSIVE SelectDate(_, _)
SelectDate(entries, d) ==
    IF entries = <<>> THEN <<>>
    ELSE LET rest == SelectDate(SubSeq(entries, 1, Len(entries) - 1), d)
             e == entries[Len(entries)]
         IN  IF DateOf(parse_iso(e.t)) = d THEN Append(rest, e) ELSE rest

IsMorning(e) == 7 <= HourOf(parse_iso(e.t)) /\ HourOf(parse_iso(e.t)) < 12
IsEvening(e) == HourOf(parse_iso(e.t)) >= 21

\* the first element of the list satisfying the window, as a list of 0 or 1
\* records (the empty list is Python's None)
FirstMorning(ms) ==
    LET idx == {i \in DOMAIN ms : IsMorning(ms[i])}
    IN  IF idx = {} THEN <<>>
        ELSE <<ms[CHOOSE i \in idx : \A j \in idx : i <= j]>>

FirstEvening(ms) ==
    LET idx == {i \in DOMAIN ms : IsEvening(ms[i])}
    IN  IF idx = {} THEN <<>>
        ELSE <<ms[CHOOSE i \in idx : \A j \in idx : i <= j]>>

DatesOf(entries) == {DateOf(parse_iso(entries[i].t)) : i \in DOMAIN entries}

\* the result list: one [date, morning, evening] per date, dates ascending
group_measurements_by_date(entries) ==
    LET dates == DatesOf(entries)
        nth(i) == CHOOSE d \in dates : Cardinality({x \in dates : x < d}) = i - 1
    IN  [i \in 1..Cardinality(dates) |->
            LET measurements == SortByDt(SelectDate(entries, nth(i)))
            IN  [date |-> nth(i),
                 morning |-> FirstMorning(measurements),
                 evening |-> FirstEvening(measurements)]]

\* lines 112-123: the "t" strings of the mornings and of the evenings
get_highlighted_timestamps(entries) ==
    LET grouped == group_measurements_by_date(entries)
    IN  [morning_ts |-> {grouped[i].morning[1].t :
                           i \in {j \in DOMAIN grouped : grouped[j].morning # <<>>}},
         evening_ts |-> {grouped[i].evening[1].t :
                           i \in {j \in DOMAIN grouped : grouped[j].evening # <<>>}}]

\* plot_pressure, lines 166-175: the colour of each entry's marker
MarkerColors(entries) ==
    LET hl == get_highlighted_timestamps(entries)
    IN  [i \in DOMAIN entries |->
           IF entries[i].t \in hl.morning_ts THEN "morning"
           ELSE IF entries[i].t \in hl.evening_ts THEN "evening"
           ELSE "other"]

\* the entries whose "t" is in ts
RECURSIVE WithStampIn(_, _)
WithStampIn(entries, ts) ==
    IF entries = <<>> THEN <<>>
    ELSE LET rest == WithStampIn(SubSeq(entries, 1, Len(entries) - 1), ts)
             e == entries[Len(entries)]
         IN  IF e.t \in ts THEN Append(rest, e) ELSE rest

\* chart_combined, lines 419-436, on the lines of the store: the entries
\* read, the timestamps highlighted among them, the entries handed to
\* plot_pressure and the colours it gives them
chart_combined(lines, filter) ==
    LET entries == read_all(lines).items
        hl == get_highlighted_timestamps(entries)
        filtered_entries ==
            IF filter = "me_only"
            THEN WithStampIn(entries, hl.morning_ts \cup hl.evening_ts)
            ELSE entries
    IN  [filter |-> filter, entries |-> entries,
         morning_ts |-> hl.morning_ts, evening_ts |-> hl.evening_ts,
         filtered_entries |-> filtered_entries,
         colors |-> MarkerColors(filtered_entries)]

----------------------------------------------------------------------------
(* The request handlers.  Each of the server's worker threads serves one   *)
(* request at a time; FastAPI runs "def" endpoints in a thread pool, so    *)
(* two handlers interleave at every access to the file system.             *)

Procs == {1, 2}

\* bounds of the model
MaxRequests == 3
MaxTime == 1
MaxEdit == 2

NoResp == [kind |-> "none", err |-> FALSE, msg |-> "", errs |-> <<>>]

\* the local variables of a handler that serves no request
IdleLoc ==
    [kind |-> "none", hx |-> FALSE, out |-> "none", msg |-> "",
     entry |-> NoEntry, buf |-> <<>>, edited |-> <<>>, bak |-> 0,
     before |-> <<>>, pos |-> 0, items |-> <<>>, begin |-> <<>>,
     resp |-> NoResp]

\* the server starts with the store holding lines; its clock reads hour 24
SysInitWith(lines) ==
    /\ file = lines
    /\ lock = {}
    /\ backups = [b \in {} |-> <<>>]
    /\ now = 24
    /\ pc = [p \in Procs |-> "idle"]
    /\ loc = [p \in Procs |-> IdleLoc]
    /\ started = 0
    /\ appended = [i \in DOMAIN lines |-> lines[i].rec]
    /\ editlog = {}

SysInit == SysInitWith(<<>>)

NoCall == [done |-> FALSE, val |-> <<>>]

Called(v) == [done |-> TRUE, val |-> v]

Init == SysInit /\ arg = <<>> /\ ret = NoCall

\* the clock advances
Tick ==
    /\ now < 24 + MaxTime
    /\ now' = now + 1
    /\ UNCHANGED <<file, lock, backups, pc, loc, started, appended, editlog,
                   arg, ret>>

\* the response is sent and the worker thread is free for the next request
Return(p) ==
    /\ pc[p] = "done"
    /\ pc' = [pc EXCEPT ![p] = "idle"]
    /\ loc' = [loc EXCEPT ![p] = IdleLoc]
    /\ UNCHANGED <<file, lock, backups, now, started, appended, editlog, arg, ret>>

----------------------------------------------------------------------------
(* POST /add.                                                              *)
(* A form is [line, sys_bp, dia_bp, pulse, local_tz, hx]: line is          *)
(* [present, parts], present being the truth value of the string and parts *)
(* the tokens of line.strip().split(), each [int, v] (int = FALSE: int()   *)
(* raises ValueError on the token); an optional integer field is a list of *)
(* 0 or 1 integers; hx tells whether the HX-Request header is "true".      *)

Tok(v) == [int |-> TRUE, v |-> v]
Junk == [int |-> FALSE, v |-> 0]

Outcome(out, msg, s, d, p) ==
    [out |-> out, msg |-> msg, sys |-> s, dia |-> d, pulse |-> p]

\* the message of the first triple validate_values rejects, "ok" if none
RECURSIVE FirstBadTriple(_, _, _, _)
FirstBadTriple(sys_list, dia_list, pulse_list, i) ==
    IF i > Len(sys_list) THEN "ok"
    ELSE IF validate_values(sys_list[i], dia_list[i], pulse_list[i]) # "ok"
         THEN validate_values(sys_list[i], dia_list[i], pulse_list[i])
         ELSE FirstBadTriple(sys_list, dia_list, pulse_list, i + 1)

\* lines 355-373: the branch taken when line is a non-empty string
AddLineOutcome(parts) ==
    IF Len(parts) % 3 # 0
    THEN Outcome("reject",
                 "Input must contain a multiple of 3 values (SYS DIA PULSE)",
                 0, 0, 0)
    ELSE IF \E i \in DOMAIN parts : ~parts[i].int
    THEN Outcome("reject", "invalid literal for int() with base 10", 0, 0, 0)
    ELSE
      LET num_measurements == Len(parts) \div 3
          sys_list == [i \in 1..num_measurements |-> parts[3 * (i - 1) + 1].v]
          dia_list == [i \in 1..num_measurements |-> parts[3 * (i - 1) + 2].v]
          pulse_list == [i \in 1..num_measurements |-> parts[3 * (i - 1) + 3].v]
          bad == FirstBadTriple(sys_list, dia_list, pulse_list, 1)
      IN  IF bad # "ok" THEN Outcome("reject", bad, 0, 0, 0)
          ELSE IF num_measurements = 0
          \* compute_median_avg([]): sorted_vals[-1] raises IndexError,
          \* which "except ValueError" does not catch
          THEN Outcome("crash", "IndexError: list index out of range", 0, 0, 0)
          ELSE
            LET sys_v == compute_median_avg(sys_list)
                dia_v == compute_median_avg(dia_list)
                pul_v == compute_median_avg(pulse_list)
            IN  IF validate_values(sys_v, dia_v, pul_v) # "ok"
                THEN Outcome("reject", validate_values(sys_v, dia_v, pul_v),
                             0, 0, 0)
                ELSE Outcome("accept", "Saved", sys_v, dia_v, pul_v)

\* lines 374-378: the branch taken when line is None or empty
AddFieldsOutcome(form) ==
    IF form.sys_bp = <<>> \/ form.dia_bp = <<>> \/ form.pulse = <<>>
    THEN Outcome("reject", "Need three values: sys, dia, pulse", 0, 0, 0)
    ELSE IF validate_values(form.sys_bp[1], form.dia_bp[1], form.pulse[1]) # "ok"
    THEN Outcome("reject",
                 validate_values(form.sys_bp[1], form.dia_bp[1], form.pulse[1]),
                 0, 0, 0)
    ELSE Outcome("accept", "Saved", form.sys_bp[1], form.dia_bp[1], form.pulse[1])

AddOutcome(form) ==
    IF form.line.present THEN AddLineOutcome(form.line.parts)
    ELSE AddFieldsOutcome(form)

LineForm(parts, tz, hx) ==
    [line |-> [present |-> TRUE, parts |-> parts],
     sys_bp |-> <<>>, dia_bp |-> <<>>, pulse |-> <<>>, local_tz |-> tz, hx |-> hx]

FieldForm(f, tz, hx) ==
    [line |-> [present |-> FALSE, parts |-> <<>>],
     sys_bp |-> f[1], dia_bp |-> f[2], pulse |-> f[3], local_tz |-> tz, hx |-> hx]

\* the token lists submitted as "line": one triple, two triples whose
\* medians are halves, two tokens, only white space, a systolic below the
\* range, a diastolic above the systolic, a token that is no number
AddLines ==
    { <<Tok(120), Tok(80), Tok(70)>>,
      <<Tok(120), Tok(80), Tok(70), Tok(131), Tok(85), Tok(61)>>,
      <<Tok(120), Tok(80)>>,
      <<>>,
      <<Tok(60), Tok(80), Tok(70)>>,
      <<Tok(100), Tok(110), Tok(70)>>,
      <<Junk, Tok(80), Tok(70)>> }

\* the three fields submitted without "line": valid, one missing, one out of range
AddFields ==
    { << <<118>>, <<79>>, <<66>> >>,
      << <<>>, <<80>>, <<70>> >>,
      << <<120>>, <<160>>, <<70>> >> }

\* local_tz of the form: absent ("") or a zone name
FormZones == {"", "Europe/Moscow"}

AddForms ==
    {LineForm(l, tz, hx) : l \in AddLines, tz \in FormZones, hx \in BOOLEAN}
    \cup {FieldForm(f, tz, hx) : f \in AddFields, tz \in FormZones, hx \in BOOLEAN}

\* the forms of the specifications with two handlers: the response of a
\* request does not act on the other handler, so one kind of response is
\* kept; the two accepted forms come from two time zones, and the others
\* are a diastolic above the systolic and a line of white space
PlainAddForms ==
    { LineForm(<<Tok(120), Tok(80), Tok(70), Tok(131), Tok(85), Tok(61)>>,
               "", FALSE),
      FieldForm(<< <<118>>, <<79>>, <<66>> >>, "Europe/Moscow", FALSE),
      LineForm(<<Tok(100), Tok(110), Tok(70)>>, "", FALSE),
      LineForm(<<>>, "", FALSE) }

ErrorResp == [kind |-> "error500", err |-> FALSE, msg |-> "", errs |-> <<>>]
RedirectResp == [kind |-> "redirect", err |-> FALSE, msg |-> "", errs |-> <<>>]
PageResp(err, msg, errs) ==
    [kind |-> "page", err |-> err, msg |-> msg, errs |-> errs]

\* a template response whose context is built from read_all(): an exception
\* of read_all leaves the handler
RenderPage(lines, err, msg, errs) ==
    IF read_all(lines).ok THEN PageResp(err, msg, errs) ELSE ErrorResp

\* lines 353-392 and 395-397: the form is parsed and validated and the
\* record is built, with the clock read in the form's time zone
AddRequest(p, form) ==
    /\ pc[p] = "idle"
    /\ started < MaxRequests
    /\ started' = started + 1
    /\ LET o == AddOutcome(form)
           tz_name == IF form.local_tz = "" THEN "Asia/Shanghai"
                      ELSE form.local_tz
           entry == [t |-> now_local_iso(tz_name, now),
                     sys |-> o.sys, dia |-> o.dia, pulse |-> o.pulse]
           l == [IdleLoc EXCEPT !.kind = "add", !.hx = form.hx,
                                !.out = o.out, !.msg = o.msg]
       IN  CASE o.out = "accept" ->
                  /\ loc' = [loc EXCEPT ![p] = [l EXCEPT !.entry = entry]]
                  /\ pc' = [pc EXCEPT ![p] = "a_lock"]
             [] o.out = "reject" ->
                  /\ loc' = [loc EXCEPT ![p] = l]
                  /\ pc' = [pc EXCEPT ![p] = "a_respond"]
             [] OTHER ->
                  /\ loc' = [loc EXCEPT ![p] = [l EXCEPT !.resp = ErrorResp]]
                  /\ pc' = [pc EXCEPT ![p] = "done"]
    /\ UNCHANGED <<file, lock, backups, now, appended, editlog, arg, ret>>

\* append_entry, lines 129-133: the file is opened for appending,
\* flock(LOCK_EX) waits until no other open file holds the lock, and
\* f.write puts the line into the file object's buffer
AddLock(p) ==
    /\ pc[p] = "a_lock"
    /\ lock = {}
    /\ lock' = {p}
    /\ loc' = [loc EXCEPT ![p].buf = <<json_dumps(loc[p].entry)>>]
    /\ pc' = [pc EXCEPT ![p] = "a_unlock"]
    /\ UNCHANGED <<file, backups, now, started, appended, editlog, arg, ret>>

\* line 135: flock(LOCK_UN)
AddUnlock(p) ==
    /\ pc[p] = "a_unlock"
    /\ lock' = lock \ {p}
    /\ pc' = [pc EXCEPT ![p] = "a_close"]
    /\ UNCHANGED <<file, backups, now, loc, started, appended, editlog, arg, ret>>

FileTruncating(lines, buf) == buf

\* what a file opened with "a" holds after the buffer is flushed to it
FileAppend(lines, buf) == lines \o buf

\* the end of the "with" block (line 130): the file is closed, which flushes
\* the buffer to the end of the file
AddClose(p) ==
    /\ pc[p] = "a_close"
    /\ file' = FileAppend(file, loc[p].buf)
    /\ appended' = Append(appended, loc[p].entry)
    /\ loc' = [loc EXCEPT ![p].buf = <<>>]
    /\ pc' = [pc EXCEPT ![p] = "a_respond"]
    /\ UNCHANGED <<lock, backups, now, started, editlog, arg, ret>>

\* lines 394-416: the page with status_msg for an HTMX request, else a
\* redirect to "/" that carries no message
AddRespond(p) ==
    /\ pc[p] = "a_respond"
    /\ loc' = [loc EXCEPT ![p].resp =
                 IF loc[p].hx
                 THEN RenderPage(file, loc[p].out = "reject", loc[p].msg, <<>>)
                 ELSE RedirectResp]
    /\ pc' = [pc EXCEPT ![p] = "done"]
    /\ UNCHANGED <<file, lock, backups, now, started, appended, editlog, arg, ret>>

----------------------------------------------------------------------------
(* read_all as a handler runs it (GET /json): the file is read line by     *)
(* line, without the lock, while other handlers write.                     *)

\* lines 74-76: the file is opened; begin remembers what it held then
ReadRequest(p) ==
    /\ pc[p] = "idle"
    /\ started < MaxRequests
    /\ started' = started + 1
    /\ loc' = [loc EXCEPT ![p] = [IdleLoc EXCEPT !.kind = "read",
                                   !.begin = file]]
    /\ pc' = [pc EXCEPT ![p] = "r_read"]
    /\ UNCHANGED <<file, lock, backups, now, appended, editlog, arg, ret>>

\* lines 77-84: the next line, if the file has one beyond the position
ReadLine(p) ==
    /\ pc[p] = "r_read"
    /\ loc[p].pos < Len(file)
    /\ LET line == file[loc[p].pos + 1]
       IN  loc' = [loc EXCEPT ![p].pos = @ + 1,
                              ![p].items = IF LoadableLine(line)
                                           THEN Append(@, line) ELSE @]
    /\ UNCHANGED <<file, lock, backups, now, pc, started, appended, editlog,
                   arg, ret>>

\* lines 85-87: at the end of the file the items are sorted and returned
ReadReturn(p) ==
    /\ pc[p] = "r_read"
    /\ loc[p].pos >= Len(file)
    /\ LET kept == loc[p].items
           items == [i \in DOMAIN kept |-> kept[i].rec]
       IN  loc' = [loc EXCEPT
                     ![p].items = IF SortRaises(kept) THEN <<>>
                                  ELSE SortByDt(items),
                     ![p].resp = IF SortRaises(kept) THEN ErrorResp
                                 ELSE [NoResp EXCEPT !.kind = "json"]]
    /\ pc' = [pc EXCEPT ![p] = "done"]
    /\ UNCHANGED <<file, lock, backups, now, started, appended, editlog, arg, ret>>

----------------------------------------------------------------------------
(* POST /edit.                                                             *)
(* A form is [t, sys, dia, pulse, nraw, ntz, hx]: four of the six          *)
(* submitted lists, the lengths of the lists "raw" and "local_tz", and the *)
(* HX-Request flag.                                                        *)

EntryOf(ts, s, d, p) == [t |-> ts, sys |-> s, dia |-> d, pulse |-> p]

\* the entries a user submits: two valid ones whose string order is the
\* reverse of their order in time, one with a timestamp that is no ISO
\* text, one with a pulse out of range, one with diastolic above systolic
EditEntries ==
    { EntryOf([clk |-> 30, sfx |-> "+03:00"], 121, 81, 71),
      EntryOf([clk |-> 33, sfx |-> "+08:00"], 122, 82, 72),
      EntryOf([clk |-> 0, sfx |-> "?"], 120, 80, 70),
      EntryOf([clk |-> 31, sfx |-> "+08:00"], 120, 80, 20),
      EntryOf([clk |-> 31, sfx |-> "+08:00"], 90, 95, 70) }

EntryLists == UNION {[1..n -> EditEntries] : n \in 1..MaxEdit}

Cut(seq, short) == IF short THEN SubSeq(seq, 1, Len(seq) - 1) ELSE seq

\* the form that submits the entries es, the list named by cut one short
EditForm(es, cut, hx) ==
    [t |-> Cut([i \in DOMAIN es |-> es[i].t], cut = "t"),
     sys |-> Cut([i \in DOMAIN es |-> es[i].sys], cut = "sys"),
     dia |-> Cut([i \in DOMAIN es |-> es[i].dia], cut = "dia"),
     pulse |-> Cut([i \in DOMAIN es |-> es[i].pulse], cut = "pulse"),
     nraw |-> IF cut = "raw" THEN Len(es) - 1 ELSE Len(es),
     ntz |-> IF cut = "local_tz" THEN Len(es) - 1 ELSE Len(es),
     hx |-> hx]

\* every list of entries with lists of equal length, and the one-entry
\* lists with each of the six lists one short
EditForms ==
    {EditForm(es, "none", hx) : es \in EntryLists, hx \in BOOLEAN}
    \cup {EditForm(es, cut, hx) :
            es \in [1..1 -> EditEntries],
            cut \in {"t", "sys", "dia", "pulse", "raw", "local_tz"},
            hx \in BOOLEAN}

\* the forms of the specifications with two handlers
PlainEditForms ==
    { EditForm(<<EntryOf([clk |-> 30, sfx |-> "+03:00"], 121, 81, 71)>>,
               "none", FALSE),
      EditForm(<<EntryOf([clk |-> 31, sfx |-> "+08:00"], 90, 95, 70)>>,
               "none", FALSE) }

\* line 488
SameLengths(form) ==
    /\ Len(form.t) = Len(form.sys)
    /\ Len(form.sys) = Len(form.dia)
    /\ Len(form.dia) = Len(form.pulse)
    /\ Len(form.pulse) = form.nraw
    /\ form.nraw = form.ntz

\* lines 508-523 for entry i: the ValueError message, or "ok"
EntryError(form, i) ==
    IF ~parse_iso(form.t[i]).ok THEN "Invalid isoformat string"
    ELSE validate_values(form.sys[i], form.dia[i], form.pulse[i])

\* lines 505-523: the accepted entries, in the order submitted
RECURSIVE EditedEntries(_, _)
EditedEntries(form, n) ==
    IF n = 0 THEN <<>>
    ELSE IF EntryError(form, n) = "ok"
         THEN Append(EditedEntries(form, n - 1),
                     EntryOf(form.t[n], form.sys[n], form.dia[n], form.pulse[n]))
         ELSE EditedEntries(form, n - 1)

\* lines 505-523: the errors, "Entry n: message", in the order submitted
RECURSIVE EditErrors(_, _)
EditErrors(form, n) ==
    IF n = 0 THEN <<>>
    ELSE IF EntryError(form, n) = "ok"
         THEN EditErrors(form, n - 1)
         ELSE Append(EditErrors(form, n - 1),
                     [entry |-> n, msg |-> EntryError(form, n)])

\* lines 488-540: the lengths are compared and the entries validated; a
\* failure is answered with the edit page and its message
EditCheck(p, form) ==
    /\ pc[p] = "idle"
    /\ started < MaxRequests
    /\ started' = started + 1
    /\ LET l == [IdleLoc EXCEPT !.kind = "edit", !.hx = form.hx]
           errors == EditErrors(form, Len(form.t))
       IN  IF ~SameLengths(form)
           THEN /\ loc' = [loc EXCEPT ![p] =
                     [l EXCEPT !.out = "reject",
                               !.msg = "Error: Mismatched number of fields",
                               !.resp = RenderPage(file, TRUE,
                                   "Error: Mismatched number of fields", <<>>)]]
                /\ pc' = [pc EXCEPT ![p] = "done"]
           ELSE IF errors # <<>>
           THEN /\ loc' = [loc EXCEPT ![p] =
                     [l EXCEPT !.out = "reject",
                               !.msg = "Validation errors",
                               !.resp = RenderPage(file, TRUE,
                                   "Validation errors", errors)]]
                /\ pc' = [pc EXCEPT ![p] = "done"]
           ELSE /\ loc' = [loc EXCEPT ![p] =
                     [l EXCEPT !.out = "accept",
                               !.edited = EditedEntries(form, Len(form.t))]]
                /\ pc' = [pc EXCEPT ![p] = "e_read"]
    /\ UNCHANGED <<file, lock, backups, now, appended, editlog, arg>>

\* POST /edit with a form that comes from no page of the model
EditRequest(p, form) ==
    /\ EditCheck(p, form)
    /\ UNCHANGED ret

\* lines 544-550: the stored records are sorted by their "t" strings, the
\* last EDIT_LAST of them are dropped, the edited ones are added and the
\* whole is sorted by the "t" strings again
CombinedEntries(items, edited) ==
    LET all_entries == SortByStr(items)
    IN  SortByStr(SubSeq(all_entries, 1, Len(all_entries) - EDIT_LAST)
                  \o edited)

\* lines 542-550: the store is read and the new contents are computed
EditRead(p) ==
    /\ pc[p] = "e_read"
    /\ LET r == read_all(file)
       IN  IF r.ok
           THEN /\ loc' = [loc EXCEPT ![p].items =
                              CombinedEntries(r.items, loc[p].edited)]
                /\ pc' = [pc EXCEPT ![p] = "e_backup"]
           ELSE /\ loc' = [loc EXCEPT ![p].resp = ErrorResp]
                /\ pc' = [pc EXCEPT ![p] = "done"]
    /\ UNCHANGED <<file, lock, backups, now, started, appended, editlog, arg, ret>>

\* the backup files after shutil.copy(DATA_FILE, name)
CopyTo(bs, name, lines) ==
    [b \in DOMAIN bs \cup {name} |-> IF b = name THEN lines ELSE bs[b]]

\* lines 553-558: the store is copied to a file named after the clock
EditBackup(p) ==
    /\ pc[p] = "e_backup"
    /\ backups' = CopyTo(backups, now, file)
    /\ loc' = [loc EXCEPT ![p].bak = now]
    /\ pc' = [pc EXCEPT ![p] = "e_open"]
    /\ UNCHANGED <<file, lock, now, started, appended, editlog, arg, ret>>

\* line 562: open(DATA_FILE, "w") truncates the store; before remembers
\* what it held
EditOpen(p) ==
    /\ pc[p] = "e_open"
    /\ file' = <<>>
    /\ loc' = [loc EXCEPT ![p].before = file]
    /\ pc' = [pc EXCEPT ![p] = "e_lock"]
    /\ UNCHANGED <<lock, backups, now, started, appended, editlog, arg, ret>>

\* lines 563-566: flock(LOCK_EX), then the lines are put into the file
\* object's buffer
EditLock(p) ==
    /\ pc[p] = "e_lock"
    /\ lock = {}
    /\ lock' = {p}
    /\ loc' = [loc EXCEPT ![p].buf =
                 [i \in DOMAIN loc[p].items |-> json_dumps(loc[p].items[i])],
                          ![p].items = <<>>]
    /\ pc' = [pc EXCEPT ![p] = "e_unlock"]
    /\ UNCHANGED <<file, backups, now, started, appended, editlog, arg, ret>>

\* line 568
EditUnlock(p) ==
    /\ pc[p] = "e_unlock"
    /\ lock' = lock \ {p}
    /\ pc' = [pc EXCEPT ![p] = "e_close"]
    /\ UNCHANGED <<file, backups, now, loc, started, appended, editlog, arg, ret>>

Fragment == [kind |-> "garbage", rec |-> NoEntry]

\* What a file opened with "w" may hold after the buffer is flushed to it:
\* the bytes are written from position 0 over whatever other handlers wrote
\* since the truncation.  Lines beyond the written length survive; where
\* the written bytes end inside a line, the rest of that line stays behind
\* as a fragment.
FlushAtStart(cur, buf) ==
    LET k == Len(buf)
        m == Len(cur)
    IN  IF k = 0 THEN {cur}
        ELSE IF m < k THEN {buf}
        ELSE {buf \o SubSeq(cur, k + 1, m),
              buf \o <<Fragment>> \o SubSeq(cur, k + 1, m)}
             \cup (IF m > k
                   THEN {buf \o <<Fragment>> \o SubSeq(cur, k + 2, m)}
                   ELSE {})

\* the end of the "with" block (line 562): the file is closed, which flushes
\* the buffer
EditClose(p) ==
    /\ pc[p] = "e_close"
    /\ file' \in FlushAtStart(file, loc[p].buf)
    /\ editlog' = editlog \cup {[bak |-> loc[p].bak, before |-> loc[p].before]}
    /\ loc' = [loc EXCEPT ![p].buf = <<>>]
    /\ pc' = [pc EXCEPT ![p] = "e_respond"]
    /\ UNCHANGED <<lock, backups, now, started, appended, arg, ret>>

\* lines 570-592
EditRespond(p) ==
    /\ pc[p] = "e_respond"
    /\ loc' = [loc EXCEPT ![p].resp =
                 IF loc[p].hx
                 THEN RenderPage(file, FALSE, "Data saved successfully.", <<>>)
                 ELSE RedirectResp]
    /\ pc' = [pc EXCEPT ![p] = "done"]
    /\ UNCHANGED <<file, lock, backups, now, started, appended, editlog, arg, ret>>

EditStep(p) ==
    \/ EditRead(p)
    \/ EditBackup(p)
    \/ EditOpen(p)
    \/ EditLock(p)
    \/ EditUnlock(p)
    \/ EditClose(p)
    \/ EditRespond(p)

AddStep(p) ==
    \/ AddLock(p)
    \/ AddUnlock(p)
    \/ AddClose(p)
    \/ AddRespond(p)

\* the server under add and read requests only
NextAdd ==
    \/ \E p \in Procs, form \in PlainAddForms : AddRequest(p, form)
    \/ \E p \in Procs : AddStep(p)
    \/ \E p \in Procs : ReadRequest(p)
    \/ \E p \in Procs : ReadLine(p)
    \/ \E p \in Procs : ReadReturn(p)
    \/ \E p \in Procs : Return(p)
    \/ Tick

SpecAdd == Init /\ [][NextAdd]_vars

\* the server under add and edit requests, two handlers at a time
Next ==
    \/ \E p \in Procs, form \in PlainAddForms : AddRequest(p, form)
    \/ \E p \in Procs : AddStep(p)
    \/ \E p \in Procs, form \in PlainEditForms : EditRequest(p, form)
    \/ \E p \in Procs : EditStep(p)
    \/ \E p \in Procs : Return(p)
    \/ Tick

Spec == Init /\ [][Next]_vars

----------------------------------------------------------------------------
(* One handler serving requests one after another, on a store that         *)
(* earlier add requests have filled.                                       *)

\* the zone of the i-th stored record: the user was in Moscow for some
StoreZone(i) == IF i % 3 = 2 THEN "Europe/Moscow" ELSE "Asia/Shanghai"

\* the record an accepted add left at hour i
StoredRecord(i) ==
    EntryOf(now_local_iso(StoreZone(i), i), 110 + i, 70, 60)

Store(n) == [i \in 1..n |-> json_dumps(StoredRecord(i))]

\* sizes around the EDIT_LAST records an edit replaces
StoreSizes == {0, 2, EDIT_LAST, EDIT_LAST + 1, EDIT_LAST + 2}

InitEdit ==
    /\ \E n \in StoreSizes : SysInitWith(Store(n))
    /\ arg = <<>>
    /\ ret = NoCall

\* edit requests of every form, one after another
NextEdit ==
    \/ \E form \in EditForms : EditRequest(1, form)
    \/ EditStep(1)
    \/ Return(1)
    \/ Tick

SpecEdit == InitEdit /\ [][NextEdit]_vars

\* add requests of every form, one after another, from the empty store
NextAddSeq ==
    \/ \E form \in AddForms : AddRequest(1, form)
    \/ AddStep(1)
    \/ Return(1)
    \/ Tick

SpecAddSeq == Init /\ [][NextAddSeq]_vars

----------------------------------------------------------------------------
(* The edit page.  GET /edit shows the user the most recent records; the   *)
(* user changes values in the page and posts it.  One handler serves the   *)
(* requests one after another; ret is the page the browser holds          *)
(* (ret.done: the page is on the screen and can be posted).                *)

\* lines 461-463: the entries GET /edit puts into the page
edit(lines) ==
    LET all_entries == read_all(lines).items
        n == Len(all_entries)
    IN  IF n >= EDIT_LAST
        THEN SubSeq(all_entries, n - EDIT_LAST + 1, n)
        ELSE all_entries

\* lines 459-475: GET /edit
EditPage(p) ==
    /\ pc[p] = "idle"
    /\ started < MaxRequests
    /\ started' = started + 1
    /\ read_all(file).ok
    /\ ret' = Called(edit(file))
    /\ UNCHANGED <<file, lock, backups, now, pc, loc, appended, editlog, arg>>

\* what the user may do to the page: leave it as shown, or correct the
\* systolic value of its first entry
PageEdits(shown) ==
    {shown, [shown EXCEPT ![1].sys = 130]}

\* the page is posted: the form carries every entry of the page; the
\* browser then waits for the response (ret.val keeps what was posted)
SubmitPage(p) ==
    /\ ret.done
    /\ ret.val # <<>>
    /\ \E es \in PageEdits(ret.val), hx \in BOOLEAN :
          EditCheck(p, EditForm(es, "none", hx))
    /\ ret' = [ret EXCEPT !.done = FALSE]

\* GET /edit, add requests and the POST of the page, one after another
NextEditPage ==
    \/ EditPage(1)
    \/ \E form \in PlainAddForms : AddRequest(1, form)
    \/ AddStep(1)
    \/ SubmitPage(1)
    \/ EditStep(1)
    \/ Return(1)
    \/ Tick

SpecEditPage == InitEdit /\ [][NextEditPage]_vars

----------------------------------------------------------------------------
(* The functions on their own: arg is drawn from a bounded set of inputs   *)
(* and the function is applied to it once.                                 *)

FnFrame == UNCHANGED <<file, lock, backups, now, pc, loc, started, appended,
                       editlog, arg>>

\* values at and around every bound of validate_values
SysVals == {69, 70, 100, 250, 251}
DiaVals == {39, 40, 101, 150, 151}
PulVals == {29, 30, 220, 221}

InitValidate ==
    /\ SysInit
    /\ arg \in SysVals \X DiaVals \X PulVals
    /\ ret = NoCall

CallValidate ==
    /\ ~ret.done
    /\ ret' = Called(validate_values(arg[1], arg[2], arg[3]))
    /\ FnFrame

SpecValidate == InitValidate /\ [][CallValidate]_vars

\* bounds of the record lists given to group_measurements_by_date
MaxEntries == 2
MaxDay == 2

\* clock hours before, at the start of, inside and at the end of the two windows
GroupHours == {6, 7, 11, 12, 21, 23}

GroupStamps ==
    {[clk |-> 24 * d + h, sfx |-> x] :
        d \in 1..MaxDay, h \in GroupHours, x \in {"+03:00", "+08:00"}}

GroupEntries == {EntryOf(ts, 120, 80, 70) : ts \in GroupStamps}

InitGroup ==
    /\ SysInit
    /\ arg \in UNION {[1..n -> GroupEntries] : n \in 0..MaxEntries}
    /\ ret = NoCall

CallGroup ==
    /\ ~ret.done
    /\ ret' = Called(group_measurements_by_date(arg))
    /\ FnFrame

SpecGroup == InitGroup /\ [][CallGroup]_vars

\* bound of the number of lines of the file given to read_all
MaxLines == 2

\* lines of every kind: three records with offsets (the second earlier in
\* time than the first, though its text sorts later), a record with a naive
\* timestamp, a record whose "t" is no ISO text, and the malformed kinds
ReadLines ==
    { json_dumps(EntryOf([clk |-> 30, sfx |-> "+03:00"], 121, 81, 71)),
      json_dumps(EntryOf([clk |-> 33, sfx |-> "+08:00"], 122, 82, 72)),
      json_dumps(EntryOf([clk |-> 29, sfx |-> "Z"], 123, 83, 73)),
      json_dumps(EntryOf([clk |-> 30, sfx |-> ""], 124, 84, 74)),
      json_dumps(EntryOf([clk |-> 0, sfx |-> "?"], 125, 85, 75)),
      [kind |-> "obj_no_t", rec |-> NoEntry],
      [kind |-> "scalar", rec |-> NoEntry],
      [kind |-> "garbage", rec |-> NoEntry],
      [kind |-> "blank", rec |-> NoEntry] }

InitRead ==
    /\ SysInit
    /\ arg \in UNION {[1..n -> ReadLines] : n \in 0..MaxLines}
    /\ ret = NoCall

CallReadAll ==
    /\ ~ret.done
    /\ ret' = Called(read_all(arg))
    /\ FnFrame

SpecRead == InitRead /\ [][CallReadAll]_vars

----------------------------------------------------------------------------
(* add on a line of triples: arg is the list of triples the line holds.    *)

MaxTriples == 3

\* triples at the bounds, triples whose medians are halves and whose
\* diastolic reaches another triple's systolic, and two that
\* validate_values rejects
LineTriples ==
    { <<120, 80, 70>>, <<121, 81, 71>>, <<100, 100, 60>>, <<101, 99, 63>>,
      <<250, 150, 220>>, <<70, 40, 30>>, <<100, 110, 70>>, <<251, 80, 70>> }

\* line.strip().split() of the line that spells the triples
TokensOf(triples) ==
    [i \in 1..(3 * Len(triples)) |->
        Tok(triples[((i - 1) \div 3) + 1][((i - 1) % 3) + 1])]

InitAddLine ==
    /\ SysInit
    /\ arg \in UNION {[1..n -> LineTriples] : n \in 1..MaxTriples}
    /\ ret = NoCall

\* the line is submitted, from a form or from an HTMX request
NextAddLine ==
    \/ \E hx \in BOOLEAN : AddRequest(1, LineForm(TokensOf(arg), "", hx))
    \/ AddStep(1)
    \/ Return(1)

SpecAddLine == InitAddLine /\ [][NextAddLine]_vars

----------------------------------------------------------------------------
(* GET /chart/combined.png on a store of well-formed records.              *)

InitChart ==
    /\ \E es \in UNION {[1..n -> GroupEntries] : n \in 0..MaxEntries} :
          SysInitWith([i \in DOMAIN es |-> json_dumps(es[i])])
    /\ arg = <<>>
    /\ ret = NoCall

CallChart ==
    /\ ~ret.done
    /\ read_all(file).ok
    /\ \E filter \in {"", "me_only"} :
          ret' = Called(chart_combined(file, filter))
    /\ FnFrame

SpecChart == InitChart /\ [][CallChart]_vars

----------------------------------------------------------------------------
(* Properties.                                                             *)

Recs(lines) == [i \in DOMAIN lines |-> lines[i].rec]

BagOf(seq) ==
    [x \in {seq[i] : i \in DOMAIN seq} |->
        Cardinality({i \in DOMAIN seq : seq[i] = x})]

InstantOf(e) == Instant(parse_iso(e.t))

InRange(e) ==
    /\ 70 <= e.sys /\ e.sys <= 250
    /\ 40 <= e.dia /\ e.dia <= 150
    /\ 30 <= e.pulse /\ e.pulse <= 220
    /\ e.dia <= e.sys

\* C1: whatever add and save_edit requests were served, accepted or
\* rejected, one after another or two at a time, every record in the store
\* has systolic in [70,250], diastolic in [40,150], pulse in [30,220] and
\* diastolic <= systolic.
C1_StoredRecordsValid ==
    \A i \in DOMAIN file : file[i].kind = "obj" => InRange(file[i].rec)

\* the store holds the median record of a two-triple line after the record
\* an edit wrote, and a request with diastolic above systolic was rejected
C1_Witness ==
    /\ Len(file) = 2
    /\ file[1].rec.sys = 121
    /\ file[2].rec = EntryOf(now_local_iso("Asia/Shanghai", now), 126, 82, 66)
    /\ \E p \in Procs : loc[p].kind = "add" /\ loc[p].out = "reject"

\* C2: validate_values raises exactly when sys is outside [70,250], dia is
\* outside [40,150], pulse is outside [30,220] or dia > sys; the message
\* names the first failing check in the order systolic range, diastolic
\* range, pulse range, diastolic above systolic; otherwise it returns.
C2_ValidateValues ==
    ret.done =>
      LET sysBad == arg[1] < 70 \/ arg[1] > 250
          diaBad == arg[2] < 40 \/ arg[2] > 150
          pulBad == arg[3] < 30 \/ arg[3] > 220
          order == arg[2] > arg[1]
      IN  /\ (ret.val # "ok") <=> (sysBad \/ diaBad \/ pulBad \/ order)
          /\ sysBad => ret.val = "Systolic out of range 70-250"
          /\ ~sysBad /\ diaBad => ret.val = "Diastolic out of range 40-150"
          /\ ~sysBad /\ ~diaBad /\ pulBad => ret.val = "Pulse out of range 30-220"
          /\ ~sysBad /\ ~diaBad /\ ~pulBad /\ order
                => ret.val = "Diastolic cannot be greater than systolic"

\* the triple with every value at its upper bound was accepted
C2_Witness ==
    /\ ret.done
    /\ arg = <<250, 150, 220>>
    /\ ret.val = "ok"

\* C3: for every date D of the list, morning is the reading of D with the
\* earliest clock time among those in [07:00,12:00) and evening the one
\* with the earliest clock time among those at or after 21:00, clock time
\* and date being read without time zone conversion; a slot is null exactly
\* when D has no reading in the window.
C3_EarliestClockTime ==
    ret.done =>
      /\ {ret.val[i].date : i \in DOMAIN ret.val} = DatesOf(arg)
      /\ \A i \in DOMAIN ret.val :
           LET onDate == {j \in DOMAIN arg :
                            DateOf(parse_iso(arg[j].t)) = ret.val[i].date}
               am == {j \in onDate : IsMorning(arg[j])}
               pm == {j \in onDate : IsEvening(arg[j])}
           IN  /\ (ret.val[i].morning = <<>>) <=> (am = {})
               /\ am # {} =>
                    /\ \E j \in am : ret.val[i].morning[1] = arg[j]
                    /\ \A j \in am : ret.val[i].morning[1].t.clk <= arg[j].t.clk
               /\ (ret.val[i].evening = <<>>) <=> (pm = {})
               /\ pm # {} =>
                    /\ \E j \in pm : ret.val[i].evening[1] = arg[j]
                    /\ \A j \in pm : ret.val[i].evening[1].t.clk <= arg[j].t.clk

C5_ChangesUnderLock ==
    [][\A p \in Procs : (pc'[p] # pc[p] /\ file' # file) => lock = {p}]_vars

\* C6: each successful save_edit leaves a backup file holding exactly what
\* the store held immediately before that save_edit overwrote it, in any
\* sequence of edits and with add requests or other edits running at once.
C6_BackupHoldsOverwritten ==
    \A e \in editlog :
        e.bak \in DOMAIN backups /\ backups[e.bak] = e.before

\* C7: every add request whose input is not accepted ends with a response
\* that shows the user the error message, for HTMX and non-HTMX requests
\* alike, and never in an unhandled failure.
C7_AddErrorShown ==
    \A p \in Procs :
        (pc[p] = "done" /\ loc[p].kind = "add" /\ loc[p].out # "accept")
        => /\ loc[p].resp.kind = "page"
           /\ loc[p].resp.err
           /\ loc[p].resp.msg = loc[p].msg

WellFormed(line) == line.kind = "obj" /\ parse_iso(line.rec.t).ok

\* C8: for every content of the file, read_all completes without error and
\* returns exactly the records of the well-formed lines, in ascending order
\* of timestamp instant; malformed lines are skipped.
C8_ReadAllSkipsMalformed ==
    ret.done =>
      /\ ret.val.ok
      /\ BagOf(ret.val.items)
           = BagOf(Recs(SelectSeq(arg, LAMBDA l : WellFormed(l))))
      /\ \A i, j \in DOMAIN ret.val.items :
           i < j => InstantOf(ret.val.items[i]) <= InstantOf(ret.val.items[j])

SortedByStr(seq) ==
    \A i \in 1..(Len(seq) - 1) : StrLeq(seq[i].t, seq[i + 1].t)

\* new holds the records of prev except its EDIT_LAST most recent ones (all
\* of them when there are fewer), plus the submitted entries, ordered by "t"
NewStoreAsClaimed(prev, submitted, new) ==
    LET P == BagOf(read_all(prev).items)
        N == BagOf(Recs(new))
        S == BagOf(submitted)
        K == N (-) S
        R == P (-) K
    IN  /\ \A i \in DOMAIN new : new[i].kind = "obj"
        /\ S \sqsubseteq N
        /\ K \sqsubseteq P
        /\ BagCardinality(K) = IF BagCardinality(P) > 10
                               THEN BagCardinality(P) - 10 ELSE 0
        /\ \A k \in BagToSet(K), r \in BagToSet(R) : InstantOf(k) <= InstantOf(r)
        /\ SortedByStr(Recs(new))

\* C10: save_edit rewrites the store only when the six lists have equal
\* length and every entry has a parsable timestamp and passes
\* validate_values; the new store then holds the previously stored records
\* except the 10 most recent ones, plus the submitted entries, in ascending
\* timestamp order; otherwise the store is unchanged, no backup is made and
\* the response reports the errors.
C10_SaveEdit ==
    [][\A p \in Procs :
         /\ (pc[p] = "idle" /\ loc'[p].kind = "edit" /\ loc'[p].out = "reject")
            => /\ file' = file
               /\ backups' = backups
               /\ loc'[p].resp.kind = "page"
               /\ loc'[p].resp.err
               /\ \/ loc'[p].resp.errs # <<>>
                  \/ loc'[p].resp.msg = "Error: Mismatched number of fields"
         /\ (loc[p].kind = "edit" /\ pc'[p] # pc[p]
                /\ (file' # file \/ backups' # backups))
            => loc[p].out = "accept"
         /\ (pc[p] = "e_close" /\ pc'[p] = "e_respond")
            => NewStoreAsClaimed(loc[p].before, loc[p].edited, file')]_vars

\* C11: the records a successful save_edit removes from the store are
\* exactly the records GET /edit showed (the 10 most recent by instant, or
\* all of them when there are fewer): the new store holds the records that
\* were stored and not shown, each once and unchanged, plus the submitted
\* entries; also with stored timestamps of different UTC offsets and with
\* an add completed between the GET and the POST.
C11_EditRemovesShown ==
    [][\A p \in Procs :
         (pc[p] = "e_close" /\ pc'[p] = "e_respond")
         => LET P == BagOf(Recs(loc[p].before))
                N == BagOf(Recs(file'))
                S == BagOf(loc[p].edited)
                Sh == BagOf(ret.val)
            IN  /\ Sh \sqsubseteq P
                /\ N = (P (-) Sh) (+) S]_vars

\* x is the k-th smallest of the values of v
OrderStat(v, k, x) ==
    /\ \E i \in DOMAIN v : v[i] = x
    /\ Cardinality({i \in DOMAIN v : v[i] < x}) < k
    /\ Cardinality({i \in DOMAIN v : v[i] <= x}) >= k

\* r is the median of v: the middle value, or for an even number of values
\* the mean of the two middle values rounded to a nearest integer
IsMedian(v, r) ==
    LET n == Len(v)
    IN  IF n % 2 = 1 THEN OrderStat(v, (n + 1) \div 2, r)
        ELSE \E lo, hi \in {v[i] : i \in DOMAIN v} :
               /\ OrderStat(v, n \div 2, lo)
               /\ OrderStat(v, n \div 2 + 1, hi)
               /\ 2 * r - (lo + hi) \in {-1, 0, 1}

Component(triples, c) == [i \in DOMAIN triples |-> triples[i][c]]

MediansOf(triples, e) ==
    /\ IsMedian(Component(triples, 1), e.sys)
    /\ IsMedian(Component(triples, 2), e.dia)
    /\ IsMedian(Component(triples, 3), e.pulse)

\* C12: for a line of n >= 1 triples given to add, the stored systolic,
\* diastolic and pulse are each the median of the n values of the component
\* (even n: the mean of the two middle values, rounded); and when every
\* triple passes validate_values the aggregated triple passes it too: the
\* add is accepted.
C12_MedianStored ==
    /\ \A i \in DOMAIN file : MediansOf(arg, file[i].rec)
    /\ \A p \in Procs :
          loc[p].kind = "add" =>
            /\ loc[p].out = "accept" => MediansOf(arg, loc[p].entry)
            /\ (\A i \in DOMAIN arg :
                   validate_values(arg[i][1], arg[i][2], arg[i][3]) = "ok")
               => loc[p].out = "accept"

\* a line of two accepted triples whose systolic values have a half for
\* their mean, and whose median diastolic equals the median systolic, was
\* stored
C12_Witness ==
    /\ arg = << <<100, 100, 60>>, <<101, 99, 63>> >>
    /\ Len(file) = 1
    /\ file[1].rec.sys = 100
    /\ file[1].rec.dia = 100
    /\ file[1].rec.pulse = 62

\* the positions of the list that hold a reading of calendar date d
OnDate(entries, d) ==
    {i \in DOMAIN entries : DateOf(parse_iso(entries[i].t)) = d}

\* C13: the highlight selection marks at most one reading per calendar date
\* as morning and at most one as evening, and none as both; the list kept
\* under filter=me_only has at most two readings per date, and the
\* selection run again on that list marks every reading in it.
C13_HighlightPerDate ==
    (ret.done /\ ret.val.filter = "me_only") =>
      LET entries == ret.val.entries
          kept == ret.val.filtered_entries
      IN  /\ \A d \in DatesOf(entries) :
                /\ Cardinality({i \in OnDate(entries, d) :
                       entries[i].t \in ret.val.morning_ts}) <= 1
                /\ Cardinality({i \in OnDate(entries, d) :
                       entries[i].t \in ret.val.evening_ts}) <= 1
          /\ ret.val.morning_ts \cap ret.val.evening_ts = {}
          /\ \A d \in DatesOf(kept) : Cardinality(OnDate(kept, d)) <= 2
          /\ \A i \in DOMAIN ret.val.colors : ret.val.colors[i] # "other"

============================================================================
